---- MODULE Spec2Model ----
(***************************************************************************)
(* Model of powerrag/app/gotenberg_converter.py: convert_office_to_pdf and *)
(* convert_html_to_pdf, two synchronous helpers that upload one document   *)
(* to a Gotenberg service and return the PDF it answers with.              *)
(*                                                                         *)
(* Strings and byte strings are sequences of one-character strings;        *)
(* messages are sequences whose elements are the literal pieces of the     *)
(* f-strings followed by the characters of the interpolated values.        *)
(* Optional values are sequences of length 0 (None) or 1.                  *)
(* Progress values are in hundredths: 0.15 -> 15, 0.2 -> 20, -1 -> -100.   *)
(***************************************************************************)
EXTENDS Integers, Sequences, FiniteSets, TLC

\* ------------------------------------------------------------ bounds
MaxNameLen == 3
MaxTextLen == 1
MaxBinaryLen == 1

\* ------------------------------------------------------------ constants
PROGRESS_START == 15
PROGRESS_SUCCESS == 20
PROGRESS_FAILED == -100
DEFAULT_TIMEOUT == 120
INVALID_TIMEOUT == 0
STATUS_OK == 200
STATUS_BAD_REQUEST == 400
STATUS_SERVICE_UNAVAILABLE == 503
STATUS_SERVER_ERROR == 500

\* ------------------------------------------------------------ values
None == <<>>
Some(x) == <<x>>

SeqsUpTo(S, n) == UNION {[1..k -> S] : k \in 0..n}

NameChars == {"a", ".", "/"}
Filenames == SeqsUpTo(NameChars, MaxNameLen) \ {<<>>}
Binaries == {None} \cup {Some(b) : b \in SeqsUpTo({"0x62"}, MaxBinaryLen)}
Callbacks == {None, Some("progress_callback")}
TraceIds == {None, Some(<<>>), Some(<<"t">>)}
Timeouts == {INVALID_TIMEOUT, DEFAULT_TIMEOUT}
Functions == {"convert_office_to_pdf", "convert_html_to_pdf"}
Configs == {"absent", "no_url", "url"}
Statuses == {STATUS_OK, STATUS_BAD_REQUEST, STATUS_SERVICE_UNAVAILABLE, STATUS_SERVER_ERROR}
Contents == SeqsUpTo({"0x78"}, MaxTextLen)

\* Python truthiness of an Optional[bytes] / Optional[str]: None and the
\* empty value are falsy.
Truthy(o) == o # None /\ o[1] # <<>>

\* Python truthiness of an Optional[Callable]: only None is falsy.
CallableTruthy(c) == c # None

\* str(trace_id) for a str argument.
PyStr(s) == s

\* response.text: the body decoded character by character.
DecodeChar(b) == IF b = "0x78" THEN "x" ELSE "?"
Decode(bs) == [i \in 1..Len(bs) |-> DecodeChar(bs[i])]

\* f"{response.status_code}"
StatusStr(code) ==
    CASE code = 200 -> "200"
      [] code = 400 -> "400"
      [] code = 500 -> "500"
      [] code = 503 -> "503"
      [] OTHER -> "???"

\* ------------------------------------------------------------ os.path
\* p.rfind(c), 1-based; 0 when c does not occur.
RFind(p, c) ==
    LET hits == {i \in 1..Len(p) : p[i] = c}
    IN  IF hits = {} THEN 0 ELSE CHOOSE i \in hits : \A j \in hits : j <= i

\* os.path.basename(p)
Basename(p) == SubSeq(p, RFind(p, "/") + 1, Len(p))

\* Splitext with a fault: splits at the first dot of the path.
Splitext_FirstDot(p) ==
    LET hits == {i \in 1..Len(p) : p[i] = "."}
        dot == IF hits = {} THEN 0 ELSE CHOOSE i \in hits : \A j \in hits : i <= j
    IN  IF dot > 0 THEN <<SubSeq(p, 1, dot - 1), SubSeq(p, dot, Len(p))>>
        ELSE <<p, <<>>>>

\* os.path.splitext(p): split at the last dot of the last path component,
\* unless that component consists of leading dots up to there.
Splitext(p) ==
    LET sepIndex == RFind(p, "/")
        dotIndex == RFind(p, ".")
    IN  IF dotIndex > sepIndex
             /\ \E k \in (sepIndex + 1)..(dotIndex - 1) : p[k] # "."
        THEN <<SubSeq(p, 1, dotIndex - 1), SubSeq(p, dotIndex, Len(p))>>
        ELSE <<p, <<>>>>

PDF_EXT == <<".", "p", "d", "f">>

\* pdf_filename = os.path.splitext(filename)[0] + ".pdf"
PdfFilename(name) == Splitext(name)[1] \o PDF_EXT

\* ------------------------------------------------------------ request
DEFAULT_URL == "http://localhost:3000"
CONFIGURED_URL == "http://gotenberg:3000"

\* _get_gotenberg_url(): (get_base_config("gotenberg", {}) or {}).get("url", default)
GetGotenbergUrl(cfg) == IF cfg = "url" THEN CONFIGURED_URL ELSE DEFAULT_URL

Route(f) ==
    IF f = "convert_office_to_pdf" THEN "/forms/libreoffice/convert"
    ELSE "/forms/chromium/convert/html"

\* url = f"{gotenberg_url}/forms/..."
Url(cfg, f) == <<GetGotenbergUrl(cfg), Route(f)>>

\* UploadName with a fault: the HTML route keeps the caller's file name.
UploadName_Basename(f, name) == Basename(name)

\* The name the part is uploaded under.
UploadName(f, name) ==
    IF f = "convert_office_to_pdf" THEN Basename(name) ELSE <<"index.html">>

\* BuildHeaders with a fault: tests "is not None" instead of truthiness.
BuildHeaders_NotNone(tid) ==
    IF tid # None THEN {<<"Gotenberg-Trace", PyStr(tid[1])>>} ELSE {}

\* headers = {}; if trace_id: headers['Gotenberg-Trace'] = str(trace_id)
BuildHeaders(tid) ==
    IF Truthy(tid) THEN {<<"Gotenberg-Trace", PyStr(tid[1])>>} ELSE {}

\* ------------------------------------------------------------ messages
StartMsg(f) ==
    IF f = "convert_office_to_pdf" THEN <<"Converting Office document to PDF...">>
    ELSE <<"Converting HTML document to PDF...">>

SuccessMsg(f) ==
    IF f = "convert_office_to_pdf" THEN <<"Office document converted to PDF successfully">>
    ELSE <<"HTML document converted to PDF successfully">>

\* BadRequestMsg with a fault: the response text is left out.
BadRequestMsg_NoText(text) == <<"Gotenberg conversion failed: ", "Bad Request", " - ">>

BadRequestMsg(text) ==
    <<"Gotenberg conversion failed: ", "Bad Request", " - ">> \o text

ServiceUnavailableMsg(text) ==
    <<"Gotenberg conversion failed: ", "Service Unavailable", " - ">> \o text

\* OtherStatusMsg with a fault: the status code is left out.
OtherStatusMsg_NoCode(code, text) ==
    <<"Gotenberg conversion failed with status ", ": ">> \o text

OtherStatusMsg(code, text) ==
    <<"Gotenberg conversion failed with status ", StatusStr(code), ": ">> \o text

FailedPrefix(f) ==
    IF f = "convert_office_to_pdf" THEN "Failed to convert Office document to PDF"
    ELSE "Failed to convert HTML document to PDF"

\* NetworkErrorMsg with a fault: the network handler formats like the generic one.
NetworkErrorMsg_Generic(f, e) == <<FailedPrefix(f), ": ">> \o e

\* f"Failed to convert ... to PDF (network error): {str(e)}"
NetworkErrorMsg(f, e) == <<FailedPrefix(f), " (network error): ">> \o e

\* f"Failed to convert ... to PDF: {str(e)}"
GenericErrorMsg(f, e) == <<FailedPrefix(f), ": ">> \o e

\* ------------------------------------------------------------ exceptions
NoExc == [kind |-> "none", msg |-> <<>>]
Exc(k, m) == [kind |-> k, msg |-> m]

\* isinstance(e, requests.exceptions.RequestException)
IsRequestException(e) == e.kind = "RequestException"

\* isinstance(e, Exception)
IsException(e) == e.kind \in {"Exception", "RequestException", "OSError", "ValueError", "CallbackError"}

CALLBACK_ERROR == Exc("CallbackError", <<"callback raised">>)
OPEN_ERROR == Exc("OSError", <<"[Errno 2] No such file or directory">>)
TIMEOUT_VALUE_ERROR == Exc("ValueError", <<"Attempted to set connect timeout to 0">>)
CONNECTION_ERROR == Exc("RequestException", <<"Connection refused">>)

\* ------------------------------------------------------------ callback and handle
\* StartCalls with a fault: the start notification is skipped.
StartCalls_Skipped(cs, cb, f) == cs

\* if callback: callback(0.15, "Converting ... to PDF...")
StartCalls(cs, cb, f) ==
    IF CallableTruthy(cb) THEN Append(cs, <<PROGRESS_START, StartMsg(f)>>) ELSE cs

\* if callback: callback(0.2, "... converted to PDF successfully")
SuccessCalls(cs, cb, f) ==
    IF CallableTruthy(cb) THEN Append(cs, <<PROGRESS_SUCCESS, SuccessMsg(f)>>) ELSE cs

\* FailureCalls with a fault: the handler raises without telling the callback.
FailureCalls_Skipped(cs, cb, m) == cs

\* if callback: callback(-1, error_msg)
FailureCalls(cs, cb, m) ==
    IF CallableTruthy(cb) THEN Append(cs, <<PROGRESS_FAILED, m>>) ELSE cs

\* CloseHandle with a fault: the handle is never closed.
CloseHandle_Leak(fh, n) == n

\* if file_handle: file_handle.close() -- the number of handles the process
\* holds open afterwards.
CloseHandle(fh, n) == IF fh = "open" THEN n - 1 ELSE n

\* ------------------------------------------------------------ state
VARIABLES
    config,       \* what get_base_config("gotenberg", {}) yields
    fs_open,      \* number of file handles the process holds open
    pc,           \* position of the invocation
    fn,           \* which function was called
    filename, binary, callback, trace_id, timeout,   \* its arguments
    file_handle,  \* local: "None", "open" or "closed"
    files,        \* local: the multipart part
    request,      \* the request handed to requests.post and sent
    response,     \* the response requests.post returned
    exc,          \* the exception in flight inside the try block
    calls,        \* the (progress, message) pairs the callback received
    io,           \* log of callback, open, close and post events
    outcome,      \* what the caller receives
    cause         \* what made the invocation fail

vars == <<config, fs_open, pc, fn, filename, binary, callback, trace_id, timeout,
          file_handle, files, request, response, exc, calls, io, outcome, cause>>

args == <<fn, filename, binary, callback, trace_id, timeout>>

NoOutcome ==
    [type |-> "none", pdf_binary |-> <<>>, pdf_filename |-> <<>>,
     kind |-> "none", msg |-> <<>>, raised_by |-> "none"]

Returned(pdf, name) ==
    [type |-> "return", pdf_binary |-> pdf, pdf_filename |-> name,
     kind |-> "none", msg |-> <<>>, raised_by |-> "none"]

Raised(e, by) ==
    [type |-> "raise", pdf_binary |-> <<>>, pdf_filename |-> <<>>,
     kind |-> e.kind, msg |-> e.msg, raised_by |-> by]

Init ==
    /\ config \in Configs
    /\ fs_open = 0
    /\ pc = "idle"
    /\ fn = "convert_office_to_pdf"
    /\ filename = <<"a">>
    /\ binary = None
    /\ callback = None
    /\ trace_id = None
    /\ timeout = DEFAULT_TIMEOUT
    /\ file_handle = "None"
    /\ files = None
    /\ request = None
    /\ response = None
    /\ exc = NoExc
    /\ calls = <<>>
    /\ io = <<>>
    /\ outcome = NoOutcome
    /\ cause = "none"

\* The caller invokes one of the two functions.
Call(f, name, bin, cb, tid, tmo) ==
    /\ pc = "idle"
    /\ fn' = f
    /\ filename' = name
    /\ binary' = bin
    /\ callback' = cb
    /\ trace_id' = tid
    /\ timeout' = tmo
    /\ pc' = "start"
    /\ UNCHANGED <<config, fs_open, file_handle, files, request, response, exc,
                   calls, io, outcome, cause>>

\* Lines 65-68 / 161-164: the start notification, outside the try block.
NotifyStart ==
    /\ pc = "start"
    /\ calls' = StartCalls(calls, callback, fn)
    /\ io' = IF CallableTruthy(callback) THEN Append(io, "callback") ELSE io
    /\ \E raises \in BOOLEAN :
         /\ raises => CallableTruthy(callback)
         /\ IF raises
            THEN /\ outcome' = Raised(CALLBACK_ERROR, "callback")
                 /\ cause' = "callback_start"
                 /\ pc' = "done"
            ELSE /\ pc' = "try"
                 /\ UNCHANGED <<outcome, cause>>
    /\ file_handle' = "None"
    /\ UNCHANGED <<config, fs_open, args, files, request, response, exc>>

\* Lines 74-75 / 170-172: the part is built from the bytes given.
PrepareFromBinary ==
    /\ pc = "try"
    /\ Truthy(binary)
    /\ files' = Some([field |-> "files", name |-> UploadName(fn, filename),
                      src |-> "bytes", data |-> binary[1], path |-> <<>>])
    /\ pc' = "post"
    /\ UNCHANGED <<config, fs_open, args, file_handle, request, response, exc,
                   calls, io, outcome, cause>>

\* Lines 76-78 / 173-175: the file is opened and becomes the part.
OpenFile ==
    /\ pc = "try"
    /\ ~Truthy(binary)
    /\ file_handle' = "open"
    /\ fs_open' = fs_open + 1
    /\ io' = Append(io, "open")
    /\ files' = Some([field |-> "files", name |-> UploadName(fn, filename),
                      src |-> "file", data |-> <<>>, path |-> filename])
    /\ pc' = "post"
    /\ UNCHANGED <<config, args, request, response, exc, calls, outcome, cause>>

\* Line 77 / 174: open() raises OSError.
OpenFileFails ==
    /\ pc = "try"
    /\ ~Truthy(binary)
    /\ exc' = OPEN_ERROR
    /\ cause' = "open"
    /\ pc' = "except"
    /\ UNCHANGED <<config, fs_open, args, file_handle, files, request, response,
                   calls, io, outcome>>

TheRequest ==
    [url |-> Url(config, fn), files |-> files[1],
     headers |-> BuildHeaders(trace_id), timeout |-> timeout]

\* Line 86 / 183: requests.post rejects a timeout <= 0 with ValueError before
\* anything is sent.
PostInvalidTimeout ==
    /\ pc = "post"
    /\ timeout <= 0
    /\ exc' = TIMEOUT_VALUE_ERROR
    /\ cause' = "post_error"
    /\ pc' = "except"
    /\ UNCHANGED <<config, fs_open, args, file_handle, files, request, response,
                   calls, io, outcome>>

\* Line 86 / 183: the request is sent and the service answers.
PostResponds(status, body) ==
    /\ pc = "post"
    /\ timeout > 0
    /\ request' = Some(TheRequest)
    /\ io' = Append(io, "post")
    /\ response' = Some([status_code |-> status, content |-> body, text |-> Decode(body)])
    /\ pc' = "respond"
    /\ UNCHANGED <<config, fs_open, args, file_handle, files, exc, calls, outcome, cause>>

\* Line 86 / 183: the request is sent and the transport fails.
PostRaisesRequestException ==
    /\ pc = "post"
    /\ timeout > 0
    /\ request' = Some(TheRequest)
    /\ io' = Append(io, "post")
    /\ exc' = CONNECTION_ERROR
    /\ cause' = "network"
    /\ pc' = "except"
    /\ UNCHANGED <<config, fs_open, args, file_handle, files, response, calls, outcome>>

\* Lines 89-91 / 186-188: the handle is closed once the response is there.
CloseAfterPost ==
    /\ fs_open' = CloseHandle(file_handle, fs_open)
    /\ file_handle' = "None"
    /\ io' = IF file_handle = "open" THEN Append(io, "close") ELSE io

\* Lines 94-97 / 191-194.
Respond200 ==
    /\ pc = "respond"
    /\ response[1].status_code = STATUS_OK
    /\ CloseAfterPost
    /\ pc' = "success"
    /\ UNCHANGED <<config, args, files, request, response, exc, calls, outcome, cause>>

\* Lines 103-106 / 200-203.
Respond400 ==
    /\ pc = "respond"
    /\ response[1].status_code = STATUS_BAD_REQUEST
    /\ CloseAfterPost
    /\ exc' = Exc("Exception", BadRequestMsg(response[1].text))
    /\ cause' = "http"
    /\ pc' = "except"
    /\ UNCHANGED <<config, args, files, request, response, calls, outcome>>

\* Lines 107-110 / 204-207.
Respond503 ==
    /\ pc = "respond"
    /\ response[1].status_code = STATUS_SERVICE_UNAVAILABLE
    /\ CloseAfterPost
    /\ exc' = Exc("Exception", ServiceUnavailableMsg(response[1].text))
    /\ cause' = "http"
    /\ pc' = "except"
    /\ UNCHANGED <<config, args, files, request, response, calls, outcome>>

\* Lines 111-114 / 208-211.
RespondOther ==
    /\ pc = "respond"
    /\ response[1].status_code \notin {STATUS_OK, STATUS_BAD_REQUEST, STATUS_SERVICE_UNAVAILABLE}
    /\ CloseAfterPost
    /\ exc' = Exc("Exception", OtherStatusMsg(response[1].status_code, response[1].text))
    /\ cause' = "http"
    /\ pc' = "except"
    /\ UNCHANGED <<config, args, files, request, response, calls, outcome>>

\* Lines 99-102 / 196-199: the success notification, inside the try block,
\* then the return.
NotifySuccess ==
    /\ pc = "success"
    /\ calls' = SuccessCalls(calls, callback, fn)
    /\ io' = IF CallableTruthy(callback) THEN Append(io, "callback") ELSE io
    /\ \E raises \in BOOLEAN :
         /\ raises => CallableTruthy(callback)
         /\ IF raises
            THEN /\ exc' = CALLBACK_ERROR
                 /\ cause' = "callback_success"
                 /\ pc' = "except"
                 /\ UNCHANGED outcome
            ELSE /\ outcome' = Returned(response[1].content, PdfFilename(filename))
                 /\ pc' = "done"
                 /\ UNCHANGED <<exc, cause>>
    /\ UNCHANGED <<config, fs_open, args, file_handle, files, request, response>>

\* Line 123 / 220: raise Exception(error_msg) of the network handler.
NetworkFailure(f, e) == Exc("Exception", NetworkErrorMsg(f, e.msg))

\* Line 131 / 228: raise Exception(error_msg) of the generic handler.
GenericFailure(f, e) == Exc("Exception", GenericErrorMsg(f, e.msg))

\* What both except clauses do with the exception they built: close the
\* handle, tell the callback, raise.
FailWith(failure) ==
    /\ fs_open' = CloseHandle(file_handle, fs_open)
    /\ file_handle' = IF file_handle = "open" THEN "closed" ELSE file_handle
    /\ calls' = FailureCalls(calls, callback, failure.msg)
    /\ io' = (IF file_handle = "open" THEN Append(io, "close") ELSE io)
             \o (IF CallableTruthy(callback) THEN <<"callback">> ELSE <<>>)
    /\ \E raises \in BOOLEAN :
         /\ raises => CallableTruthy(callback)
         /\ outcome' = IF raises THEN Raised(CALLBACK_ERROR, "callback")
                       ELSE Raised(failure, "function")
    /\ exc' = NoExc
    /\ pc' = "done"
    /\ UNCHANGED <<config, args, files, request, response, cause>>

\* Lines 116-123 / 213-220.
ExceptRequestException ==
    /\ pc = "except"
    /\ IsRequestException(exc)
    /\ FailWith(NetworkFailure(fn, exc))

\* Lines 124-131 / 221-228.
ExceptException ==
    /\ pc = "except"
    /\ ~IsRequestException(exc)
    /\ IsException(exc)
    /\ FailWith(GenericFailure(fn, exc))

\* The caller has the result or the exception; the locals are gone.
Finish ==
    /\ pc = "done"
    /\ pc' = "idle"
    /\ fn' = "convert_office_to_pdf"
    /\ filename' = <<"a">>
    /\ binary' = None
    /\ callback' = None
    /\ trace_id' = None
    /\ timeout' = DEFAULT_TIMEOUT
    /\ file_handle' = "None"
    /\ files' = None
    /\ request' = None
    /\ response' = None
    /\ exc' = NoExc
    /\ calls' = <<>>
    /\ io' = <<>>
    /\ outcome' = NoOutcome
    /\ cause' = "none"
    /\ UNCHANGED <<config, fs_open>>

Next ==
    \/ /\ pc = "idle"
       /\ \E f \in Functions, name \in Filenames, bin \in Binaries, cb \in Callbacks,
             tid \in TraceIds, tmo \in Timeouts : Call(f, name, bin, cb, tid, tmo)
    \/ NotifyStart
    \/ PrepareFromBinary
    \/ OpenFile
    \/ OpenFileFails
    \/ PostInvalidTimeout
    \/ \E status \in Statuses, body \in Contents : PostResponds(status, body)
    \/ PostRaisesRequestException
    \/ Respond200
    \/ Respond400
    \/ Respond503
    \/ RespondOther
    \/ NotifySuccess
    \/ ExceptRequestException
    \/ ExceptException
    \/ Finish

Spec == Init /\ [][Next]_vars

\* ------------------------------------------------------------ properties
Contains(s, t) == \E i \in 0..(Len(s) - Len(t)) : SubSeq(s, i + 1, i + Len(t)) = t
EndsWith(s, t) == Len(s) >= Len(t) /\ SubSeq(s, Len(s) - Len(t) + 1, Len(s)) = t
Logged(ev) == \E i \in DOMAIN io : io[i] = ev
Progress == [i \in 1..Len(calls) |-> calls[i][1]]
FailureCallsSeen == {i \in DOMAIN calls : calls[i][1] = PROGRESS_FAILED}
TraceHeaders(r) == {h \in r.headers : h[1] = "Gotenberg-Trace"}
Http(status, body) == Exc("Exception",
    IF status = STATUS_BAD_REQUEST THEN BadRequestMsg(Decode(body))
    ELSE IF status = STATUS_SERVICE_UNAVAILABLE THEN ServiceUnavailableMsg(Decode(body))
    ELSE OtherStatusMsg(status, Decode(body)))

\* How an error message names the status: the reason phrase for 400 and 503,
\* the number for any other status.
StatusLabel(code) ==
    IF code = STATUS_BAD_REQUEST THEN "Bad Request"
    ELSE IF code = STATUS_SERVICE_UNAVAILABLE THEN "Service Unavailable"
    ELSE StatusStr(code)

\* ext is a proper extension of the path root \o ext: a dot followed by
\* characters that are neither dots nor separators, after a last component
\* that does not consist of dots alone.
ProperExtension(root, ext) ==
    /\ ext # <<>>
    /\ ext[1] = "."
    /\ \A i \in 2..Len(ext) : ext[i] \notin {".", "/"}
    /\ \E i \in DOMAIN Basename(root) : Basename(root)[i] # "."

\* out is name with its extension (if it has one) replaced by ".pdf".
ExtensionReplaced(name, out) ==
    /\ EndsWith(out, PDF_EXT)
    /\ LET root == SubSeq(out, 1, Len(out) - Len(PDF_EXT))
           ext == SubSeq(name, Len(root) + 1, Len(name))
       IN  /\ name = root \o ext
           /\ \/ ProperExtension(root, ext)
              \/ /\ ext = <<>>
                 /\ \A k \in 1..Len(name) :
                      ~ProperExtension(SubSeq(name, 1, k - 1), SubSeq(name, k, Len(name)))

\* C1: when the input file was opened from disk, its handle is closed on every
\* exit path: no invocation ends (returns or raises) with a handle still open.
C1_HandleClosedOnEveryExit ==
    pc \in {"done", "idle"} => (fs_open = 0 /\ file_handle # "open")

C1_Witness ==
    pc = "done" /\ cause = "network" /\ Logged("open") /\ Logged("close")

\* C2 as stated: every failing invocation that was given a callback has called
\* it with progress -1 and the message of the exception the caller receives.
C2_FailureAlwaysNotified ==
    (pc = "done" /\ outcome.type = "raise" /\ callback # None)
        => \E i \in DOMAIN calls : calls[i] = <<PROGRESS_FAILED, outcome.msg>>

\* C2 amended: every invocation that was given a callback and fails for a
\* reason other than the callback raising on the start notification has called
\* the callback with progress -1 and the error message as its last act before
\* raising; when that call returns, the message is the message of the Exception
\* the caller receives.
C2_FailureNotifiedUnlessStartRaised ==
    (pc = "done" /\ outcome.type = "raise" /\ callback # None /\ cause # "callback_start")
        => /\ calls # <<>>
           /\ calls[Len(calls)][1] = PROGRESS_FAILED
           /\ calls[Len(calls)][2][1] = FailedPrefix(fn)
           /\ io[Len(io)] = "callback"
           /\ outcome.raised_by = "function"
                => (outcome.kind = "Exception" /\ outcome.msg = calls[Len(calls)][2])

C2_Witness ==
    /\ pc = "done" /\ outcome.type = "raise" /\ callback # None
    /\ cause = "open" /\ outcome.raised_by = "function"

\* C3 as stated: whenever binary is not None no disk file is opened and the
\* request body is those bytes; when binary is None the named file is opened
\* and is the request body.
C3_BinaryMeansNoOpen ==
    /\ (pc # "idle" /\ binary # None)
         => /\ ~Logged("open")
            /\ request # None
                 => (request[1].files.src = "bytes" /\ request[1].files.data = binary[1])
    /\ (pc # "idle" /\ binary = None /\ request # None)
         => /\ Logged("open")
            /\ request[1].files.src = "file"
            /\ request[1].files.path = filename

\* C4: when the service answers 400 or 503 the call raises and never returns a
\* result, and a callback, if given, receives exactly one call with progress -1,
\* whose message contains the response text.
C4_BadRequestAndUnavailableFail ==
    (response # None /\ response[1].status_code \in {STATUS_BAD_REQUEST, STATUS_SERVICE_UNAVAILABLE})
        => /\ outcome.type # "return"
           /\ pc = "done"
                => /\ outcome.type = "raise"
                   /\ callback # None
                        => /\ Cardinality(FailureCallsSeen) = 1
                           /\ \A i \in FailureCallsSeen :
                                Contains(calls[i][2], response[1].text)

C4_Witness ==
    /\ pc = "done" /\ callback # None /\ response # None
    /\ response[1].status_code = STATUS_BAD_REQUEST
    /\ response[1].text = <<"x">>

\* C5: an invocation that returns had status 200, returns the response body
\* unchanged, and returns the input filename with its extension replaced by
\* ".pdf" (".pdf" appended when it has none).
C5_ReturnsBodyAndPdfName ==
    (pc = "done" /\ outcome.type = "return")
        => /\ response[1].status_code = STATUS_OK
           /\ outcome.pdf_binary = response[1].content
           /\ ExtensionReplaced(filename, outcome.pdf_filename)

C5_Witness ==
    /\ pc = "done" /\ outcome.type = "return"
    /\ filename = <<"a", ".", "a">>
    /\ outcome.pdf_filename = <<"a", ".", "p", "d", "f">>
    /\ outcome.pdf_binary = <<"0x78">>

\* C6 as stated: every trace_id other than None is sent verbatim as the
\* Gotenberg-Trace header; None sends no such header.
C6_TraceHeaderUnlessNone ==
    request # None
        => /\ trace_id # None => TraceHeaders(request[1]) = {<<"Gotenberg-Trace", trace_id[1]>>}
           /\ trace_id = None => TraceHeaders(request[1]) = {}

\* C6 amended: every non-empty trace_id is sent verbatim as the Gotenberg-Trace
\* header; None and the empty string send no such header.
C6_TraceHeaderIffNonEmpty ==
    request # None
        => /\ (trace_id # None /\ trace_id[1] # <<>>)
                => TraceHeaders(request[1]) = {<<"Gotenberg-Trace", trace_id[1]>>}
           /\ (trace_id = None \/ trace_id = Some(<<>>))
                => TraceHeaders(request[1]) = {}

C6_Witness ==
    /\ request # None /\ trace_id = Some(<<"t">>)
    /\ request[1].headers = {<<"Gotenberg-Trace", <<"t">>>>}

\* C7 as stated: a transport failure reaches the caller as an error of a kind
\* different from the kind of the errors raised for HTTP statuses.
C7_NetworkErrorKindDistinct ==
    (pc = "done" /\ cause = "network" /\ outcome.raised_by = "function")
        => \A status \in Statuses \ {STATUS_OK}, body \in Contents :
              outcome.kind # GenericFailure(fn, Http(status, body)).kind

\* C7 amended: a transport failure and an HTTP-status failure reach the caller
\* as the same kind, a plain Exception; they differ in the message only, which
\* continues " (network error): " after the "Failed to convert ... to PDF"
\* prefix for a transport failure and ": " for an HTTP-status failure.
C7_NetworkErrorDistinctByMessageOnly ==
    (pc = "done" /\ outcome.raised_by = "function" /\ cause \in {"network", "http"})
        => /\ outcome.kind = "Exception"
           /\ outcome.msg[1] = FailedPrefix(fn)
           /\ cause = "network" => outcome.msg[2] = " (network error): "
           /\ cause = "http" => outcome.msg[2] = ": "

C7_Witness ==
    /\ pc = "done" /\ cause = "network" /\ outcome.raised_by = "function"
    /\ outcome.kind = "Exception" /\ outcome.msg[2] = " (network error): "

\* C8 as stated: for every status other than 200 the call fails with an error
\* that carries the response text and the status code.
C8_ErrorCarriesTextAndCode ==
    (pc = "done" /\ response # None /\ response[1].status_code # STATUS_OK)
        => /\ outcome.type = "raise"
           /\ Contains(outcome.msg, response[1].text)
           /\ Contains(outcome.msg, <<StatusStr(response[1].status_code)>>)

\* C8 amended: for every status other than 200 the call fails; unless the
\* callback raised during the -1 notification, the error is an Exception whose
\* message carries the response text and names the status: "Bad Request" for
\* 400, "Service Unavailable" for 503, the status code for any other status.
C8_ErrorCarriesTextAndStatusLabel ==
    (pc = "done" /\ response # None /\ response[1].status_code # STATUS_OK)
        => /\ outcome.type = "raise"
           /\ outcome.raised_by = "function"
                => /\ EndsWith(outcome.msg, response[1].text)
                   /\ Contains(outcome.msg, <<StatusLabel(response[1].status_code)>>)

C8_Witness ==
    /\ pc = "done" /\ response # None /\ outcome.raised_by = "function"
    /\ response[1].status_code = STATUS_SERVER_ERROR
    /\ response[1].text = <<"x">>

\* C9: convert_html_to_pdf uploads under field "files" with the fixed name
\* "index.html", whatever the filename and wherever the content comes from,
\* and posts to {base_url}/forms/chromium/convert/html.
C9_HtmlUploadsIndexHtml ==
    (fn = "convert_html_to_pdf" /\ request # None)
        => /\ request[1].files.field = "files"
           /\ request[1].files.name = <<"index.html">>
           /\ request[1].files.src = (IF Truthy(binary) THEN "bytes" ELSE "file")
           /\ request[1].url[1] \in {DEFAULT_URL, CONFIGURED_URL}
           /\ config = "url" <=> request[1].url[1] = CONFIGURED_URL
           /\ request[1].url[2] = "/forms/chromium/convert/html"
           /\ Len(request[1].url) = 2

C9_Witness ==
    /\ fn = "convert_html_to_pdf" /\ request # None
    /\ filename = <<"a", ".", "a">> /\ request[1].files.src = "file"

\* C10 as stated: with a callback, the progress values are exactly (0.15, 0.2)
\* when the call returns and (0.15, -1) when it fails, and 0.2 and -1 are never
\* both delivered, also when the callback raises.
C10_ProgressSequenceExact ==
    (pc = "done" /\ callback # None)
        => /\ outcome.type = "return" => Progress = <<PROGRESS_START, PROGRESS_SUCCESS>>
           /\ outcome.type = "raise" => Progress = <<PROGRESS_START, PROGRESS_FAILED>>
           /\ ~(\E i, j \in DOMAIN calls :
                  calls[i][1] = PROGRESS_SUCCESS /\ calls[j][1] = PROGRESS_FAILED)

\* C10 amended: with a callback, 0.15 is delivered first and before the request
\* is sent; the progress values are exactly (0.15, 0.2) when the call returns;
\* when it fails they are (0.15, -1), except that they are (0.15) alone when the
\* callback raised on 0.15 and (0.15, 0.2, -1) when the callback raised on 0.2.
C10_ProgressSequenceByCause ==
    /\ (callback # None /\ pc \notin {"idle", "start"})
         => /\ calls # <<>> /\ calls[1][1] = PROGRESS_START
            /\ io[1] = "callback"
    /\ (pc = "done" /\ callback # None)
         => /\ outcome.type = "return" => Progress = <<PROGRESS_START, PROGRESS_SUCCESS>>
            /\ outcome.type = "raise"
                 => Progress = (CASE cause = "callback_start" -> <<PROGRESS_START>>
                                  [] cause = "callback_success"
                                       -> <<PROGRESS_START, PROGRESS_SUCCESS, PROGRESS_FAILED>>
                                  [] OTHER -> <<PROGRESS_START, PROGRESS_FAILED>>)

C10_Witness ==
    /\ pc = "done" /\ callback # None /\ cause = "callback_success"
    /\ Progress = <<PROGRESS_START, PROGRESS_SUCCESS, PROGRESS_FAILED>>

====
